---- MODULE Spec2Model ----
(***************************************************************************)
(* Model of the Ambiclimate client library (src/ambiclimate/__init__.py).  *)
(*                                                                         *)
(* One caller drives one Ambiclimate client.  An operation that reaches    *)
(* Ambiclimate.request suspends at the HTTP call; the network then answers *)
(* each attempt with a timeout, a transport error or a JSON body.  The     *)
(* step that ends Ambiclimate.request also runs the rest of the operation  *)
(* that awaited it (find_devices, the sensor getters, the forwarders).     *)
(*                                                                         *)
(* Python values are tagged records: None, bool, dict, list, str, and      *)
(* "raise" for an exception that reaches the caller.  A JSON object is a   *)
(* function from its keys to its values, JSON null is the value None.      *)
(***************************************************************************)
EXTENDS Integers, Sequences, FiniteSets, TLC

VARIABLES devices_info, handles, pc, op, frame, attempts, reqRet, ret,
          findCalled, gets

vars == <<devices_info, handles, pc, op, frame, attempts, reqRet, ret,
          findCalled, gets>>

----------------------------------------------------------------------------
(* Bound: the retry budgets 0..MaxRetry a caller passes to Ambiclimate.request *)

MaxRetry == 3

(* Program constants *)

DefaultRetry == 3

----------------------------------------------------------------------------
(* Python values *)

None == "<None>"

NoneVal == [kind |-> "None"]
BoolVal(b) == [kind |-> "bool", val |-> b]
DictVal(d) == [kind |-> "dict", val |-> d]
ListVal(l) == [kind |-> "list", val |-> l]
StrVal(s) == [kind |-> "str", val |-> s]
Raise(e) == [kind |-> "raise", val |-> e]
Pending == [kind |-> "pending"]

PyVal(s) == IF s = None THEN NoneVal ELSE StrVal(s)

(* dict.get(key) and dict.get(key, default) *)
Get(d, k) == IF k \in DOMAIN d THEN d[k] ELSE None
GetDefault(d, k, default) == IF k \in DOMAIN d THEN d[k] ELSE default

(* d[k] = v on a dict *)
SetItem(d, k, v) ==
    [x \in DOMAIN d \cup {k} |-> IF x = k THEN v ELSE d[x]]

EmptyDict == [x \in {} |-> None]

----------------------------------------------------------------------------
(* What the remote service may answer *)

Bedroom == [room_name |-> "Bedroom", location_name |-> "Home", device_id |-> "abc"]
Office == [room_name |-> "Office", device_id |-> "def"]
DeviceRecords == {Bedroom, Office}

Injective(s) == \A i, j \in 1..Len(s) : s[i] = s[j] => i = j

DeviceLists ==
    UNION {{s \in [1..n -> DeviceRecords] : Injective(s)} : n \in 0..Cardinality(DeviceRecords)}

StatusFields == {EmptyDict, [status |-> "ok"], [status |-> "error"], [status |-> None]}
DataFields == {EmptyDict} \cup {[data |-> l] : l \in DeviceLists}
SensorFields == {[value |-> "21"], [mode |-> "comfort"]}

Merge(a, b) == [x \in DOMAIN a \cup DOMAIN b |-> IF x \in DOMAIN a THEN a[x] ELSE b[x]]

Bodies == {Merge(s, f) : s \in StatusFields, f \in DataFields \cup SensorFields}

----------------------------------------------------------------------------
(* Ambiclimate.request, lines 33-64 *)

Method(get) == IF get THEN "GET" ELSE "POST"

Attempt(f, outcome) ==
    [method |-> Method(f.get), command |-> f.command, params |-> f.params,
     outcome |-> outcome]

NormalizeOkOnly(result) ==
    LET status == Get(result, "status") IN
    IF status = "ok" THEN BoolVal(TRUE) ELSE DictVal(result)

(* lines 57-64: result normalisation *)
Normalize(result) ==
    LET status == Get(result, "status") IN
    IF status # None
    THEN IF status = "ok" THEN BoolVal(TRUE) ELSE BoolVal(FALSE)
    ELSE DictVal(result)

RetryFrameSkip(f) ==
    [command |-> f.command, params |-> f.params, retry |-> f.retry - 2, get |-> TRUE]

(* line 52: the frame of the recursive call request(command, params, retry - 1) *)
RetryFrame(f) ==
    [command |-> f.command, params |-> f.params, retry |-> f.retry - 1, get |-> TRUE]

DeviceFrameNoLocation(h, command, params, retry) ==
    [command |-> command,
     params |-> SetItem(params, "room_name", h.room_name),
     retry |-> retry, get |-> TRUE]

(* AmbiclimateDevice.request, lines 93-97 *)
DeviceFrame(h, command, params, retry) ==
    [command |-> command,
     params |-> SetItem(SetItem(params, "room_name", h.room_name),
                        "location_name", h.location_name),
     retry |-> retry, get |-> TRUE]

NoFrame == [command |-> "", params |-> EmptyDict, retry |-> 0, get |-> TRUE]

----------------------------------------------------------------------------
(* The code that runs after `await self.request(...)` in each operation *)

SensorOps == {"get_sensor_temperature", "get_sensor_humidity", "get_sensor_mode"}

SensorField(name) == IF name = "get_sensor_mode" THEN "mode" ELSE "value"

SensorResumeGuarded(name, res) ==
    IF res.kind = "dict" THEN PyVal(Get(res.val, SensorField(name)))
    ELSE NoneVal

(* lines 139, 144, 149: res.get(field) *)
SensorResume(name, res) ==
    IF res.kind = "dict" THEN PyVal(Get(res.val, SensorField(name)))
    ELSE Raise("AttributeError")

FindDevicesInfoKeep(res, old) ==
    IF res.kind = "dict" /\ GetDefault(res.val, "data", <<>>) # <<>>
    THEN GetDefault(res.val, "data", <<>>)
    ELSE old

(* lines 69-70 *)
FindDevicesInfo(res, old) ==
    IF res.kind = "dict" THEN GetDefault(res.val, "data", <<>>) ELSE old

FindDevicesResume(res) ==
    IF res.kind = "dict" THEN BoolVal(GetDefault(res.val, "data", <<>>) # <<>>)
    ELSE Raise("AttributeError")

Resume(name, res) ==
    IF name = "find_devices" THEN FindDevicesResume(res)
    ELSE IF name \in SensorOps THEN SensorResume(name, res)
    ELSE res

(* Ambiclimate.request returns res to the operation that awaited it *)
Return(res) ==
    /\ reqRet' = res
    /\ ret' = Resume(op.name, res)
    /\ devices_info' = IF op.name = "find_devices"
                       THEN FindDevicesInfo(res, devices_info)
                       ELSE devices_info
    /\ frame' = NoFrame
    /\ pc' = "idle"

(* An operation enters Ambiclimate.request with frame f.  attempts is the
   list of the HTTP attempts made by the operation in op, reqRet the result of
   its Ambiclimate.request call. *)
Enter(o, f) ==
    /\ pc = "idle"
    /\ pc' = "awaiting"
    /\ op' = o
    /\ frame' = f
    /\ attempts' = <<>>
    /\ reqRet' = Pending
    /\ ret' = Pending

----------------------------------------------------------------------------
(* Ambiclimate *)

Init ==
    /\ devices_info = <<>>
    /\ handles = <<>>
    /\ pc = "idle"
    /\ op = [name |-> "__init__"]
    /\ frame = NoFrame
    /\ attempts = <<>>
    /\ reqRet = Pending
    /\ ret = NoneVal
    /\ findCalled = FALSE
    /\ gets = 0

(* a caller invokes Ambiclimate.request directly *)
request(retry, get) ==
    /\ Enter([name |-> "request", retry |-> retry, get |-> get],
             [command |-> "devices", params |-> EmptyDict, retry |-> retry, get |-> get])
    /\ UNCHANGED <<devices_info, handles, findCalled, gets>>

(* lines 48-52 *)
request_timeout ==
    /\ pc = "awaiting"
    /\ attempts' = Append(attempts, Attempt(frame, "timeout"))
    /\ IF frame.retry < 1
       THEN Return(NoneVal)
       ELSE /\ frame' = RetryFrame(frame)
            /\ UNCHANGED <<devices_info, pc, reqRet, ret>>
    /\ UNCHANGED <<handles, op, findCalled, gets>>

request_client_error_retried ==
    /\ pc = "awaiting"
    /\ attempts' = Append(attempts, Attempt(frame, "error"))
    /\ IF frame.retry < 1
       THEN Return(NoneVal)
       ELSE /\ frame' = RetryFrame(frame)
            /\ UNCHANGED <<devices_info, pc, reqRet, ret>>
    /\ UNCHANGED <<handles, op, findCalled, gets>>

(* lines 53-55 *)
request_client_error ==
    /\ pc = "awaiting"
    /\ attempts' = Append(attempts, Attempt(frame, "error"))
    /\ Return(NoneVal)
    /\ UNCHANGED <<handles, op, findCalled, gets>>

(* lines 45/47 answered, then lines 57-64 *)
request_response(body) ==
    /\ pc = "awaiting"
    /\ attempts' = Append(attempts, Attempt(frame, "response"))
    /\ Return(Normalize(body))
    /\ UNCHANGED <<handles, op, findCalled, gets>>

(* line 68 *)
find_devices ==
    /\ Enter([name |-> "find_devices"],
             [command |-> "devices", params |-> EmptyDict,
              retry |-> DefaultRetry, get |-> TRUE])
    /\ findCalled' = TRUE
    /\ gets' = 0
    /\ UNCHANGED <<devices_info, handles>>

(* lines 76-79 *)
Device(device) ==
    [room_name |-> Get(device, "room_name"),
     location_name |-> Get(device, "location_name"),
     device_id |-> Get(device, "device_id")]

get_devices_draining ==
    /\ pc = "idle"
    /\ op' = [name |-> "get_devices"]
    /\ handles' = [i \in 1..Len(devices_info) |-> Device(devices_info[i])]
    /\ ret' = ListVal(handles')
    /\ gets' = IF gets < 2 THEN gets + 1 ELSE 2
    /\ devices_info' = <<>>
    /\ attempts' = <<>>
    /\ reqRet' = Pending
    /\ UNCHANGED <<pc, frame, findCalled>>

(* lines 72-80 *)
get_devices ==
    /\ pc = "idle"
    /\ op' = [name |-> "get_devices"]
    /\ handles' = [i \in 1..Len(devices_info) |-> Device(devices_info[i])]
    /\ ret' = ListVal(handles')
    /\ gets' = IF gets < 2 THEN gets + 1 ELSE 2
    /\ attempts' = <<>>
    /\ reqRet' = Pending
    /\ UNCHANGED <<devices_info, pc, frame, findCalled>>

----------------------------------------------------------------------------
(* AmbiclimateDevice *)

Handles == {handles[i] : i \in 1..Len(handles)}

Multiples == BOOLEAN
Values == {"21"}

(* lines 109-110 *)
valid_comfort_feedback ==
    {"too_hot", "too_warm", "bit_warm", "comfortable", "bit_cold", "too_cold", "freezing"}

(* two values of the set, two outside it *)
FeedbackValues == {"comfortable", "freezing", "sweltering", ""}

DeviceCall(name, h, command, params) ==
    /\ Enter([name |-> name, handle |-> h, params |-> params],
             DeviceFrame(h, command, params, DefaultRetry))
    /\ UNCHANGED <<devices_info, handles, findCalled, gets>>

(* lines 99-101 *)
set_power_off ==
    \E h \in Handles, multiple \in Multiples :
        DeviceCall("set_power_off", h, "device/power/off", [multiple |-> multiple])

(* lines 103-105 *)
set_comfort_mode ==
    \E h \in Handles, multiple \in Multiples :
        DeviceCall("set_comfort_mode", h, "device/mode/comfort", [multiple |-> multiple])

set_comfort_feedback_unchecked(h, value) ==
    DeviceCall("set_comfort_feedback", h, "user/feedback", [value |-> value])

(* lines 107-114 *)
set_comfort_feedback(h, value) ==
    IF value \notin valid_comfort_feedback
    THEN /\ pc = "idle"
         /\ op' = [name |-> "set_comfort_feedback", handle |-> h,
                   params |-> [value |-> value]]
         /\ ret' = NoneVal
         /\ attempts' = <<>>
         /\ reqRet' = Pending
         /\ UNCHANGED <<devices_info, handles, pc, frame, findCalled, gets>>
    ELSE DeviceCall("set_comfort_feedback", h, "user/feedback", [value |-> value])

(* lines 116-119 *)
set_away_mode_temperature_lower ==
    \E h \in Handles, value \in Values, multiple \in Multiples :
        DeviceCall("set_away_mode_temperature_lower", h,
                   "device/mode/away_temperature_lower",
                   [multiple |-> multiple, value |-> value])

(* lines 121-124 *)
set_away_mode_temperature_upper ==
    \E h \in Handles, value \in Values, multiple \in Multiples :
        DeviceCall("set_away_mode_temperature_upper", h,
                   "device/mode/away_temperature_upper",
                   [multiple |-> multiple, value |-> value])

(* lines 126-129 *)
set_away_humidity_upper ==
    \E h \in Handles, value \in Values, multiple \in Multiples :
        DeviceCall("set_away_humidity_upper", h,
                   "device/mode/away_humidity_upper",
                   [multiple |-> multiple, value |-> value])

(* lines 131-134 *)
set_temperature_mode ==
    \E h \in Handles, value \in Values, multiple \in Multiples :
        DeviceCall("set_temperature_mode", h, "device/mode/temperature",
                   [multiple |-> multiple, value |-> value])

(* line 138 *)
get_sensor_temperature ==
    \E h \in Handles :
        DeviceCall("get_sensor_temperature", h, "device/sensor/temperature", EmptyDict)

(* line 143 *)
get_sensor_humidity ==
    \E h \in Handles :
        DeviceCall("get_sensor_humidity", h, "device/sensor/humidity", EmptyDict)

(* line 148 *)
get_sensor_mode ==
    \E h \in Handles :
        DeviceCall("get_sensor_mode", h, "device/mode", EmptyDict)

(* lines 151-153 *)
get_ir_feature ==
    \E h \in Handles :
        DeviceCall("get_ir_feature", h, "device/ir_feature", EmptyDict)

----------------------------------------------------------------------------

Next ==
    \/ \E retry \in 0..MaxRetry, get \in BOOLEAN : request(retry, get)
    \/ request_timeout
    \/ request_client_error
    \/ \E body \in Bodies : request_response(body)
    \/ find_devices
    \/ get_devices
    \/ set_power_off
    \/ set_comfort_mode
    \/ \E h \in Handles, value \in FeedbackValues : set_comfort_feedback(h, value)
    \/ set_away_mode_temperature_lower
    \/ set_away_mode_temperature_upper
    \/ set_away_humidity_upper
    \/ set_temperature_mode
    \/ get_sensor_temperature
    \/ get_sensor_humidity
    \/ get_sensor_mode
    \/ get_ir_feature

Spec == Init /\ [][Next]_vars

TypeOK ==
    /\ pc \in {"idle", "awaiting"}
    /\ Len(attempts) <= MaxRetry + DefaultRetry + 1

----------------------------------------------------------------------------
(* Properties *)

Outcomes == {attempts[i].outcome : i \in 1..Len(attempts)}

RequestReturned == reqRet.kind # "pending"

(* the retry budget the operation in progress gave to Ambiclimate.request *)
OpRetry == IF op.name = "request" THEN op.retry ELSE DefaultRetry

NetworkOp == attempts # <<>>

(* C1: a Client.request call whose every attempt times out makes exactly
   retry + 1 attempts, then ends with a null result and raises nothing: while
   it is still running it has made at most retry attempts, once it has
   returned it has made retry + 1 and its result is None. *)
C1_TimeoutBudget ==
    (NetworkOp /\ Outcomes = {"timeout"}) =>
        /\ Len(attempts) <= OpRetry + 1
        /\ (pc = "awaiting") = (Len(attempts) <= OpRetry)
        /\ pc = "awaiting" => ~RequestReturned
        /\ pc = "idle" =>
              /\ reqRet.kind = "None"
              /\ op.name = "request" => ret.kind = "None"

C1_Witness ==
    /\ op.name = "request" /\ op.retry = 2
    /\ Len(attempts) = 3 /\ Outcomes = {"timeout"}
    /\ pc = "idle" /\ reqRet.kind = "None" /\ ret.kind = "None"

(* C2 as stated: a Client.request call that meets a transport error has made
   exactly 1 attempt in total and returns None. *)
C2_Original ==
    (NetworkOp /\ "error" \in Outcomes) =>
        /\ Len(attempts) = 1
        /\ reqRet.kind = "None"

(* C2 amended: a transport error ends the call.  The attempt that meets it is
   the last attempt of the call, whatever budget remains, and the call returns
   None; a call whose first attempt meets it has made exactly 1 attempt. *)
C2_TransportErrorEndsCall ==
    \A i \in 1..Len(attempts) :
        attempts[i].outcome = "error" =>
            /\ i = Len(attempts)
            /\ pc = "idle"
            /\ reqRet.kind = "None"
            /\ op.name = "request" => ret.kind = "None"

C2_Witness ==
    /\ op.name = "request" /\ op.retry = 2
    /\ Len(attempts) = 2
    /\ attempts[1].outcome = "timeout" /\ attempts[2].outcome = "error"
    /\ pc = "idle" /\ reqRet.kind = "None"

(* the result the claim expects for a received body, null status counted as
   "any other value" *)
C3_ClaimedResult(body) ==
    IF "status" \in DOMAIN body
    THEN (IF body.status = "ok" THEN BoolVal(TRUE) ELSE BoolVal(FALSE))
    ELSE DictVal(body)

(* the same with a null status counted as absent *)
C3_AmendedResult(body) ==
    IF "status" \in DOMAIN body /\ body.status # None
    THEN (IF body.status = "ok" THEN BoolVal(TRUE) ELSE BoolVal(FALSE))
    ELSE DictVal(body)

SameValue(a, b) == a.kind = b.kind /\ a.val = b.val

(* C3 as stated: every attempt that receives a body makes Client.request
   return true for status "ok", false for a status field with any other
   value, the body itself when the status field is absent. *)
C3_Original ==
    [][\A body \in Bodies :
          request_response(body) => SameValue(reqRet', C3_ClaimedResult(body))]_vars

(* C3 amended: true for status "ok", false for a status field with any other
   non-null value, the body itself unchanged when the status field is absent
   or null; on the first attempt and on a retry alike. *)
C3_StatusNormalization ==
    [][\A body \in Bodies :
          request_response(body) =>
              /\ SameValue(reqRet', C3_AmendedResult(body))
              /\ pc' = "idle"
              /\ Len(attempts') = Len(attempts) + 1]_vars

C3_Witness ==
    /\ Len(attempts) = 2
    /\ attempts[1].outcome = "timeout" /\ attempts[2].outcome = "response"
    /\ reqRet.kind = "dict"
    /\ "status" \in DOMAIN reqRet.val /\ reqRet.val.status = None

(* C4: when the request behind findDevices returned None, findDevices returns
   false without faulting and the cached device list is empty. *)
C4_FindDevicesGraceful ==
    (op.name = "find_devices" /\ reqRet.kind = "None") =>
        /\ ret.kind = "bool" /\ ret.val = FALSE
        /\ devices_info = <<>>

(* the data field of a body, empty when missing *)
C5_Data(body) == IF "data" \in DOMAIN body THEN body.data ELSE <<>>

C5_Field(record, k) == IF k \in DOMAIN record THEN record[k] ELSE None

C5_HandlesMatch(hs, records) ==
    /\ Len(hs) = Len(records)
    /\ \A i \in 1..Len(records) :
          /\ hs[i].room_name = C5_Field(records[i], "room_name")
          /\ hs[i].location_name = C5_Field(records[i], "location_name")

(* C5: after a findDevices answered by a status-less body the cached list is
   the data field of that response (empty when missing) and findDevices
   returned true exactly when it is non-empty; the cached list changes at no
   other step; getDevices yields one handle per cached record, in order, with
   the record's room_name and location_name. *)
C5_DiscoveryCache ==
    /\ []((op.name = "find_devices" /\ reqRet.kind = "dict") =>
            /\ devices_info = C5_Data(reqRet.val)
            /\ ret.kind = "bool"
            /\ ret.val = (devices_info # <<>>))
    /\ [][/\ devices_info' # devices_info =>
               (op.name = "find_devices" /\ pc = "awaiting" /\ pc' = "idle"
                /\ reqRet'.kind = "dict")
          /\ get_devices =>
               (ret'.kind = "list" /\ C5_HandlesMatch(ret'.val, devices_info))]_vars

C5_Witness ==
    /\ op.name = "find_devices" /\ reqRet.kind = "dict"
    /\ "data" \notin DOMAIN reqRet.val
    /\ devices_info = <<>> /\ ret.kind = "bool" /\ ret.val = FALSE
    /\ Len(handles) = 2

C6_ClaimedSet ==
    {"too_hot", "too_warm", "bit_warm", "comfortable", "bit_cold", "too_cold", "freezing"}

(* C6: setComfortFeedback with a value outside the fixed set issues no HTTP
   attempt (the operation has no attempt of its own and never enters
   Client.request) and returns None. *)
C6_InvalidFeedbackNoNetwork ==
    /\ []((op.name = "set_comfort_feedback" /\ op.params.value \notin C6_ClaimedSet) =>
            (pc = "idle" /\ attempts = <<>> /\ ret.kind = "None"))
    /\ [][\A h \in Handles, value \in FeedbackValues \ C6_ClaimedSet :
            set_comfort_feedback(h, value) =>
                /\ attempts' = <<>> /\ reqRet'.kind = "pending"
                /\ pc' = "idle" /\ frame' = frame
                /\ ret'.kind = "None"]_vars

C6_Witness ==
    /\ op.name = "set_comfort_feedback" /\ op.params.value = "sweltering"
    /\ pc = "idle" /\ ret.kind = "None"
    /\ attempts = <<>> /\ reqRet.kind = "pending"

(* C7: every HTTP attempt of a Device-handle operation, retries included,
   carries the handle's room_name and location_name and uses GET. *)
C7_DeviceAttempts ==
    ("handle" \in DOMAIN op) =>
        \A i \in 1..Len(attempts) :
            /\ attempts[i].method = "GET"
            /\ "room_name" \in DOMAIN attempts[i].params
            /\ attempts[i].params.room_name = op.handle.room_name
            /\ "location_name" \in DOMAIN attempts[i].params
            /\ attempts[i].params.location_name = op.handle.location_name

C7_Witness ==
    /\ "handle" \in DOMAIN op
    /\ op.handle.room_name = "Bedroom"
    /\ Len(attempts) = 3
    /\ attempts[1].outcome = "timeout" /\ attempts[2].outcome = "timeout"

HandleIds(hs) ==
    [i \in 1..Len(hs) |-> <<hs[i].room_name, hs[i].location_name, hs[i].device_id>>]

(* C8: getDevices issues no HTTP attempt and leaves the cached device list
   unchanged; with no findDevices call made so far it returns an empty
   sequence; called again with no findDevices since the previous getDevices it
   yields the same identifiers in the same order. *)
C8_GetDevicesFrame ==
    [][get_devices =>
          /\ attempts' = <<>> /\ reqRet'.kind = "pending"
          /\ pc' = "idle" /\ frame' = frame
          /\ devices_info' = devices_info
          /\ ret'.kind = "list"
          /\ ~findCalled => ret'.val = <<>>
          /\ gets >= 1 => HandleIds(ret'.val) = HandleIds(handles)]_vars

C8_Witness ==
    /\ op.name = "get_devices" /\ gets = 2
    /\ Len(handles) = 2 /\ Len(devices_info) = 2
    /\ ret.kind = "list" /\ ret.val = handles

(* C9: every HTTP attempt of one Client.request call, the initial one and
   each retry, uses the method its useGet argument selects. *)
C9_MethodKept ==
    (op.name = "request") =>
        \A i \in 1..Len(attempts) : attempts[i].method = Method(op.get)

C10_Field(body, k) == IF k \in DOMAIN body THEN StrVal(body[k]) ELSE NoneVal

(* C10: the sensor getters have no null guard: a None result of the request
   makes them raise to the caller; a mapping makes them return its value
   field (its mode field for getSensorMode). *)
C10_SensorNoNullGuard ==
    (op.name \in {"get_sensor_temperature", "get_sensor_humidity", "get_sensor_mode"}
     /\ RequestReturned) =>
        /\ reqRet.kind = "None" => ret.kind = "raise"
        /\ reqRet.kind = "dict" =>
              ret = C10_Field(reqRet.val,
                              IF op.name = "get_sensor_mode" THEN "mode" ELSE "value")

C10_Witness ==
    /\ op.name = "get_sensor_temperature"
    /\ Len(attempts) = DefaultRetry + 1 /\ Outcomes = {"timeout"}
    /\ reqRet.kind = "None" /\ ret.kind = "raise"

====
